---------------------------- MODULE Spec2Model ----------------------------
(***************************************************************************)
(* Model of visual-media-tool/src/vmt/analyzer.py: the deterministic text  *)
(* analysis pipeline (analyze_text and its four extractors) and the query  *)
(* builder (build_queries).                                                *)
(*                                                                         *)
(* A Python str is modelled as a sequence of one-character strings, so     *)
(* that splitting, joining, lowercasing, substring search and the entity   *)
(* regular expression are computed character by character.  A float score *)
(* is modelled as an exact ratio [num, den]; IEEE rounding is not          *)
(* modelled.                                                               *)
(***************************************************************************)
EXTENDS Integers, Sequences, FiniteSets, TLC

VARIABLES
  STOPWORDS,     \* module-level set        analyzer.py:8
  EMOTION_LEX,   \* module-level dict       analyzer.py:21
  COMMON_VERBS,  \* module-level set        analyzer.py:32
  text,          \* the text handed to the last text operation
  analysis,      \* the Analysis in hand (NoAnalysis before the first one)
  op,            \* the last operation that returned or raised
  raised,        \* TRUE iff the last operation ended in an exception
  top_k,         \* argument of the last extract_keywords call
  keywords,      \* result of the last extract_keywords call
  limit,         \* argument of the last build_queries call
  queries,       \* result of the last build_queries call
  prevLimit,     \* history: the build_queries call before the last one,
  prevQueries,   \*          on the same Analysis
  refText,       \* history: one remembered analyze_text call, its result,
  refAnalysis,   \*          and what has happened since
  refPhase,
  entity_max_n,  \* argument of the last extract_entities call
  entities,      \* result of the last extract_entities call
  action_max_n,  \* argument of the last extract_actions call
  actions,       \* result of the last extract_actions call
  gemini,        \* the last attempt at the AI analyzer: environment, reply
  search         \* the last MediaSearcher.search_all call and its result

vars == <<STOPWORDS, EMOTION_LEX, COMMON_VERBS, text, analysis, op, raised,
          top_k, keywords, limit, queries, prevLimit, prevQueries,
          refText, refAnalysis, refPhase, entity_max_n, entities,
          action_max_n, actions, gemini, search>>

-----------------------------------------------------------------------------
(* Bounds                                                                  *)

MaxPieces == 3          \* a text is a concatenation of at most MaxPieces pieces
MaxSessionPieces == 1   \* the same, for the texts of a multi-call session
MaxTopK == 2            \* extract_keywords is called with top_k in 0..MaxTopK
MaxTextLimit == 2       \* build_queries on an analysed text: limit in 0..MaxTextLimit
MaxLimit == 5           \* build_queries on a constructed Analysis: limit in 0..MaxLimit
MaxEntities == 2       \* extract_entities is called with max_n in 0..MaxEntities
MaxActions == 2        \* extract_actions is called with max_n in 0..MaxActions
MaxHead == 3            \* leading keywords of a constructed Analysis that vary

-----------------------------------------------------------------------------
(* Characters and strings                                                  *)

UpperChars == {"A","B","C","D","E","F","G","H","I","J","K","L","M",
               "N","O","P","Q","R","S","T","U","V","W","X","Y","Z"}

LowerChars == {"a","b","c","d","e","f","g","h","i","j","k","l","m",
               "n","o","p","q","r","s","t","u","v","w","x","y","z"}

DigitChars == {"0","1","2","3","4","5","6","7","8","9"}

\* str.isspace: the ASCII whitespace characters
SpaceChars == {" ", "\t", "\n", "\r", "\f"}

\* the regular expression class \w on ASCII text
WordChars == UpperChars \cup LowerChars \cup DigitChars \cup {"_"}

ToLower ==
  [A |-> "a", B |-> "b", C |-> "c", D |-> "d", E |-> "e", F |-> "f", G |-> "g",
   H |-> "h", I |-> "i", J |-> "j", K |-> "k", L |-> "l", M |-> "m", N |-> "n",
   O |-> "o", P |-> "p", Q |-> "q", R |-> "r", S |-> "s", T |-> "t", U |-> "u",
   V |-> "v", W |-> "w", X |-> "x", Y |-> "y", Z |-> "z"]

ToUpper ==
  [a |-> "A", b |-> "B", c |-> "C", d |-> "D", e |-> "E", f |-> "F", g |-> "G",
   h |-> "H", i |-> "I", j |-> "J", k |-> "K", l |-> "L", m |-> "M", n |-> "N",
   o |-> "O", p |-> "P", q |-> "Q", r |-> "R", s |-> "S", t |-> "T", u |-> "U",
   v |-> "V", w |-> "W", x |-> "X", y |-> "Y", z |-> "Z"]

\* str.lower
lower(s) == [i \in 1..Len(s) |-> IF s[i] \in UpperChars THEN ToLower[s[i]] ELSE s[i]]

\* str.upper
upper(s) == [i \in 1..Len(s) |-> IF s[i] \in LowerChars THEN ToUpper[s[i]] ELSE s[i]]

\* s[:n] for n >= 0
Take(s, n) == IF n >= Len(s) THEN s ELSE SubSeq(s, 1, n)

\* x in list
Contains(list, x) == \E i \in 1..Len(list) : list[i] = x

\* no two positions of the list hold the same value
NoDuplicates(list) ==
  \A i, j \in 1..Len(list) : list[i] = list[j] => i = j

\* sub in s (substring test of str.__contains__)
IsSubstring(sub, s) ==
  \E i \in 0..(Len(s) - Len(sub)) : SubSeq(s, i + 1, i + Len(sub)) = sub

\* s.endswith(suffix)
endswith(s, suffix) ==
  /\ Len(s) >= Len(suffix)
  /\ SubSeq(s, Len(s) - Len(suffix) + 1, Len(s)) = suffix

\* the pieces re.split yields for a pattern of the form [class]+ : the text
\* between separator runs, with an empty piece where the text starts or ends
\* with a separator
RECURSIVE ReSplit(_, _, _, _, _)
ReSplit(s, seps, i, cur, out) ==
  IF i > Len(s) THEN Append(out, cur)
  ELSE IF s[i] \in seps
       THEN IF i > 1 /\ s[i - 1] \in seps
            THEN ReSplit(s, seps, i + 1, cur, out)
            ELSE ReSplit(s, seps, i + 1, <<>>, Append(out, cur))
       ELSE ReSplit(s, seps, i + 1, Append(cur, s[i]), out)

\* str.split() with no argument: the maximal runs of non-whitespace
split(s) == SelectSeq(ReSplit(s, SpaceChars, 1, <<>>, <<>>), LAMBDA w : w # <<>>)

\* " ".join(words)
RECURSIVE join(_)
join(words) ==
  IF words = <<>> THEN <<>>
  ELSE IF Len(words) = 1 THEN words[1]
  ELSE words[1] \o <<" ">> \o join(Tail(words))

-----------------------------------------------------------------------------
(* Module-level constants of analyzer.py                                   *)

STOPWORDS_0 ==
  {
    <<"a">>, <<"a","n">>, <<"a","n","d">>, <<"t","h","e">>, <<"o","f">>, <<"o","n">>,
    <<"i","n">>, <<"b","y">>, <<"t","o">>, <<"w","i","t","h">>, <<"f","r","o","m">>,
    <<"o","r">>, <<"f","o","r">>, <<"a","t">>, <<"a","s">>, <<"i","s">>, <<"a","r","e">>,
    <<"w","a","s">>, <<"w","e","r","e">>, <<"b","e">>, <<"b","e","e","n">>,
    <<"b","e","i","n","g">>, <<"i","t">>, <<"t","h","i","s">>, <<"t","h","a","t">>,
    <<"t","h","o","s","e">>, <<"t","h","e","s","e">>, <<"y","o","u">>, <<"y","o","u","r">>,
    <<"y","o","u","r","s">>, <<"w","e">>, <<"o","u","r">>, <<"o","u","r","s">>,
    <<"t","h","e","y">>, <<"t","h","e","i","r">>, <<"t","h","e","i","r","s">>, <<"h","e">>,
    <<"s","h","e">>, <<"h","i","s">>, <<"h","e","r">>, <<"i","t","s">>, <<"i">>, <<"m","e">>,
    <<"m","y">>, <<"m","i","n","e">>, <<"n","o","t">>, <<"n","o">>, <<"n","o","r">>,
    <<"b","u","t">>, <<"i","f">>, <<"t","h","e","n">>, <<"t","h","a","n">>, <<"s","o">>,
    <<"s","u","c","h">>, <<"t","o","o">>, <<"v","e","r","y">>, <<"j","u","s","t">>
  }

COMMON_VERBS_0 ==
  {
    <<"c","u","t">>, <<"r","u","n">>, <<"w","a","l","k">>, <<"t","a","l","k">>,
    <<"l","o","o","k">>, <<"s","e","e">>, <<"w","a","t","c","h">>, <<"d","r","i","v","e">>,
    <<"t","y","p","e">>, <<"s","c","r","o","l","l">>, <<"s","h","o","o","t">>,
    <<"c","o","o","k">>, <<"e","a","t">>, <<"d","r","i","n","k">>, <<"d","a","n","c","e">>,
    <<"s","i","n","g">>, <<"c","r","y">>, <<"l","a","u","g","h">>, <<"a","r","g","u","e">>,
    <<"f","i","g","h","t">>, <<"o","p","e","n">>, <<"c","l","o","s","e">>,
    <<"e","n","t","e","r">>, <<"e","x","i","t">>, <<"h","o","l","d">>, <<"p","u","s","h">>,
    <<"p","u","l","l">>, <<"l","i","f","t">>, <<"t","h","r","o","w">>, <<"c","a","t","c","h">>,
    <<"p","o","i","n","t">>, <<"t","h","i","n","k">>, <<"w","a","i","t">>, <<"s","i","t">>,
    <<"s","t","a","n","d">>, <<"w","r","i","t","e">>, <<"w","i","p","e">>, <<"p","o","u","r">>,
    <<"s","t","e","a","m">>, <<"r","i","s","e">>, <<"b","l","o","o","m">>, <<"g","l","o","w">>,
    <<"d","r","i","f","t">>, <<"c","l","i","c","k">>
  }

EMOTION_LEX_0 ==
  <<
    [label |-> "happy", kws |-> << <<"j","o","y">>, <<"h","a","p","p","y">>, <<"c","h","e","e","r">>, <<"d","e","l","i","g","h","t">>, <<"o","p","t","i","m","i","s","t","i","c">>, <<"h","o","p","e","f","u","l">> >>],
    [label |-> "sad", kws |-> << <<"s","a","d">>, <<"m","e","l","a","n","c","h","o","l","y">>, <<"b","i","t","t","e","r","s","w","e","e","t">>, <<"l","o","n","e","l","y">>, <<"r","e","g","r","e","t">> >>],
    [label |-> "angry", kws |-> << <<"a","n","g","r","y">>, <<"r","a","g","e">>, <<"f","u","r","i","o","u","s">>, <<"i","r","r","i","t","a","t","e","d">>, <<"f","r","u","s","t","r","a","t","e","d">> >>],
    [label |-> "fear", kws |-> << <<"f","e","a","r">>, <<"a","n","x","i","o","u","s">>, <<"a","f","r","a","i","d">>, <<"t","e","n","s","e">>, <<"w","o","r","r","i","e","d">> >>],
    [label |-> "surprise", kws |-> << <<"s","u","r","p","r","i","s","e">>, <<"s","h","o","c","k","e","d">>, <<"u","n","e","x","p","e","c","t","e","d">> >>],
    [label |-> "calm", kws |-> << <<"c","a","l","m">>, <<"p","e","a","c","e","f","u","l">>, <<"s","e","r","e","n","e">>, <<"r","e","l","a","x","e","d">> >>],
    [label |-> "romance", kws |-> << <<"l","o","v","e">>, <<"r","o","m","a","n","t","i","c">>, <<"t","e","n","d","e","r">> >>],
    [label |-> "hope", kws |-> << <<"h","o","p","e">>, <<"h","o","p","e","f","u","l">>, <<"a","s","p","i","r","e">> >>]
  >>

\* the character class of PUNCT_SPLIT: [\s,;:()\[\].!?\-\/]
PUNCT_CLASS == SpaceChars \cup {",", ";", ":", "(", ")", "[", "]", ".", "!", "?", "-", "/"}

\* PUNCT_SPLIT.split(text)
PUNCT_SPLIT(s) == ReSplit(s, PUNCT_CLASS, 1, <<>>, <<>>)

\* [w for w in pieces if w], with the filter left out
KeepAll(pieces) == pieces

\* [w for w in pieces if w]
NonEmpty(pieces) == SelectSeq(pieces, LAMBDA w : w # <<>>)

\* [w.lower() for w in PUNCT_SPLIT.split(text) if w]
Words(s) ==
  LET ws == NonEmpty(PUNCT_SPLIT(s))
  IN  [i \in 1..Len(ws) |-> lower(ws[i])]

-----------------------------------------------------------------------------
(* _candidate_phrases                                                      *)

\* the loop without the closing "if phrase: phrases.append(phrase)"
RECURSIVE PhraseLoopNoFlush(_, _, _, _)
PhraseLoopNoFlush(words, i, phrase, phrases) ==
  IF i > Len(words)
  THEN phrases
  ELSE IF words[i] \in STOPWORDS
       THEN IF phrase # <<>>
            THEN PhraseLoopNoFlush(words, i + 1, <<>>, Append(phrases, phrase))
            ELSE PhraseLoopNoFlush(words, i + 1, phrase, phrases)
       ELSE PhraseLoopNoFlush(words, i + 1, Append(phrase, words[i]), phrases)

RECURSIVE PhraseLoop(_, _, _, _)
PhraseLoop(words, i, phrase, phrases) ==
  IF i > Len(words)
  THEN IF phrase # <<>> THEN Append(phrases, phrase) ELSE phrases
  ELSE IF words[i] \in STOPWORDS
       THEN IF phrase # <<>>
            THEN PhraseLoop(words, i + 1, <<>>, Append(phrases, phrase))
            ELSE PhraseLoop(words, i + 1, phrase, phrases)
       ELSE PhraseLoop(words, i + 1, Append(phrase, words[i]), phrases)

\* every non-stopword token a phrase of its own
_candidate_phrases_single(s) ==
  LET kept == SelectSeq(Words(s), LAMBDA w : w \notin STOPWORDS)
  IN  [i \in 1..Len(kept) |-> <<kept[i]>>]

_candidate_phrases(s) == PhraseLoop(Words(s), 1, <<>>, <<>>)

-----------------------------------------------------------------------------
(* _score_phrases and extract_keywords                                     *)

RECURSIVE Gcd(_, _)
Gcd(a, b) == IF b = 0 THEN a ELSE Gcd(b, a % b)

Lcm(a, b) == (a \div Gcd(a, b)) * b

RECURSIVE SumOver(_, _)
SumOver(f, S) ==
  IF S = {} THEN 0
  ELSE LET x == CHOOSE y \in S : TRUE IN f[x] + SumOver(f, S \ {x})

RECURSIVE LcmOver(_, _)
LcmOver(f, S) ==
  IF S = {} THEN 1
  ELSE LET x == CHOOSE y \in S : TRUE IN Lcm(f[x], LcmOver(f, S \ {x}))

\* the (phrase, position) pairs the two nested loops of lines 52-56 visit:
\* for ph in phrases, for w in [w for w in ph if w]
Occurrences(phrases) ==
  UNION {{<<p, i>> : i \in {j \in 1..Len(phrases[p]) : phrases[p][j] # <<>>}} :
           p \in 1..Len(phrases)}

WordSet(phrases) == {phrases[pi[1]][pi[2]] : pi \in Occurrences(phrases)}

\* freq[w] after the loop: one per occurrence of w
freq(phrases) ==
  [w \in WordSet(phrases) |->
     Cardinality({pi \in Occurrences(phrases) : phrases[pi[1]][pi[2]] = w})]

\* degree[w] counting len(ph) per occurrence of w in ph
degree_full(phrases) ==
  LET occ == Occurrences(phrases)
  IN  [w \in WordSet(phrases) |->
         SumOver([pi \in occ |-> Len(phrases[pi[1]])],
                 {pi \in occ : phrases[pi[1]][pi[2]] = w})]

\* degree[w] after the loop: len(ph) - 1 per occurrence of w in ph
degree(phrases) ==
  LET occ == Occurrences(phrases)
  IN  [w \in WordSet(phrases) |->
         SumOver([pi \in occ |-> Len(phrases[pi[1]]) - 1],
                 {pi \in occ : phrases[pi[1]][pi[2]] = w})]

\* the divisor freq[w] - 1 in place of (freq[w] or 1)
DivisorLessOne(f) == f - 1

\* the divisor (freq[w] or 1)
Divisor(f) == IF f = 0 THEN 1 ELSE f

\* scores[w] = (degree[w] + freq[w]) / (freq[w] or 1), as a ratio
scores(phrases) ==
  LET fr == freq(phrases)
      dg == degree(phrases)
  IN  [w \in WordSet(phrases) |-> [num |-> dg[w] + fr[w], den |-> Divisor(fr[w])]]

\* the division of line 57 raises ZeroDivisionError
ScoreRaises(phrases) ==
  LET sc == scores(phrases) IN \E w \in DOMAIN sc : sc[w].den = 0

\* a < b and a = b on ratios with positive denominators
ScoreLess(a, b) == a.num * b.den < b.num * a.den

ScoreEq(a, b) == a.num * b.den = b.num * a.den

\* sum(scores.get(w, 0) for w in ph), over the common denominator den
RECURSIVE SumScores(_, _, _)
SumScores(ph, sc, den) ==
  IF ph = <<>> THEN 0
  ELSE (IF ph[1] \in DOMAIN sc THEN sc[ph[1]].num * (den \div sc[ph[1]].den) ELSE 0)
       + SumScores(Tail(ph), sc, den)

\* a list of pairs in place of the dict: every assignment appends
ListAppend(d, k, v) == Append(d, <<k, v>>)

\* d[k] = v on a dict kept as the sequence of its items in insertion order
DictSet(d, k, v) ==
  IF \E i \in 1..Len(d) : d[i][1] = k
  THEN [i \in 1..Len(d) |-> IF d[i][1] = k THEN <<k, v>> ELSE d[i]]
  ELSE Append(d, <<k, v>>)

RECURSIVE ScoreLoop(_, _, _, _, _)
ScoreLoop(phrases, i, sc, den, phrase_scores) ==
  IF i > Len(phrases) THEN phrase_scores
  ELSE ScoreLoop(phrases, i + 1, sc, den,
                 DictSet(phrase_scores, join(phrases[i]),
                         [num |-> SumScores(phrases[i], sc, den), den |-> den]))

\* the items of the dict _score_phrases returns (no division raising)
_score_phrases(phrases) ==
  LET sc  == scores(phrases)
      den == LcmOver([w \in DOMAIN sc |-> sc[w].den], DOMAIN sc)
  IN  ScoreLoop(phrases, 1, sc, den, <<>>)

\* sorted(items, key=lambda x: x[1], reverse=True): a stable sort, so an item
\* goes behind every item already placed whose score is not smaller
\* an unstable sort: an item goes before the items of equal score
RECURSIVE InsertDescUnstable(_, _, _)
InsertDescUnstable(sorted, x, i) ==
  IF i > Len(sorted) THEN Append(sorted, x)
  ELSE IF ~ ScoreLess(x[2], sorted[i][2])
       THEN SubSeq(sorted, 1, i - 1) \o <<x>> \o SubSeq(sorted, i, Len(sorted))
       ELSE InsertDescUnstable(sorted, x, i + 1)

RECURSIVE InsertDesc(_, _, _)
InsertDesc(sorted, x, i) ==
  IF i > Len(sorted) THEN Append(sorted, x)
  ELSE IF ScoreLess(sorted[i][2], x[2])
       THEN SubSeq(sorted, 1, i - 1) \o <<x>> \o SubSeq(sorted, i, Len(sorted))
       ELSE InsertDesc(sorted, x, i + 1)

RECURSIVE SortDesc(_, _)
SortDesc(items, sorted) ==
  IF items = <<>> THEN sorted
  ELSE SortDesc(Tail(items), InsertDesc(sorted, items[1], 1))

extract_keywords(s, k) ==
  Take(SortDesc(_score_phrases(_candidate_phrases(s)), <<>>), k)

-----------------------------------------------------------------------------
(* extract_entities                                                        *)

IsWordAt(s, i) == i >= 1 /\ i <= Len(s) /\ s[i] \in WordChars

\* \b between positions i and i + 1
Boundary(s, i) == IsWordAt(s, i) # IsWordAt(s, i + 1)

\* the last position of the maximal run of characters of class C from i on
\* (i - 1 when s[i] is not in C)
RECURSIVE RunEnd(_, _, _)
RunEnd(s, i, C) ==
  IF i <= Len(s) /\ s[i] \in C THEN RunEnd(s, i + 1, C) ELSE i - 1

\* [A-Z][a-z]+ from position i: the last position matched, 0 for no match.
\* A shorter run of [a-z] never lets the rest of the pattern match, since
\* what follows it is a lower-case letter.
CapWordEnd(s, i) ==
  IF i <= Len(s) /\ s[i] \in UpperChars /\ RunEnd(s, i + 1, LowerChars) > i
  THEN RunEnd(s, i + 1, LowerChars)
  ELSE 0

\* one round of (?:\s+[A-Z][a-z]+) after position e
GroupEnd(s, e) ==
  LET ws == RunEnd(s, e + 1, SpaceChars)
  IN  IF ws > e THEN CapWordEnd(s, ws + 1) ELSE 0

\* (?:\s+[A-Z][a-z]+)*\b after position e: greedy, giving a round back when
\* the rest cannot match; the last position matched, 0 for no match
RECURSIVE GroupsEnd(_, _)
GroupsEnd(s, e) ==
  LET g == GroupEnd(s, e)
      r == IF g # 0 THEN GroupsEnd(s, g) ELSE 0
  IN  IF r # 0 THEN r
      ELSE IF Boundary(s, e) THEN e ELSE 0

\* ENTITY_PATTERN matched at position i
MatchEnd(s, i) ==
  IF Boundary(s, i - 1) /\ CapWordEnd(s, i) # 0
  THEN GroupsEnd(s, CapWordEnd(s, i))
  ELSE 0

\* ENTITY_PATTERN.findall(text): leftmost matches, scanning on behind each
RECURSIVE FindAll(_, _, _)
FindAll(s, i, found) ==
  IF i > Len(s) THEN found
  ELSE LET e == MatchEnd(s, i)
       IN  IF e # 0 THEN FindAll(s, e + 1, Append(found, SubSeq(s, i, e)))
           ELSE FindAll(s, i + 1, found)

ENTITY_PATTERN(s) == FindAll(s, 1, <<>>)

\* str.strip()
RECURSIVE strip(_)
strip(s) ==
  IF s = <<>> THEN s
  ELSE IF s[1] \in SpaceChars THEN strip(Tail(s))
  ELSE IF s[Len(s)] \in SpaceChars THEN strip(SubSeq(s, 1, Len(s) - 1))
  ELSE s

ban == {<<"I","N","T">>, <<"E","X","T">>, <<"D","A","Y">>, <<"N","I","G","H","T">>}

\* the loop of lines 76-79
RECURSIVE EntityFilter(_, _)
EntityFilter(raw, out) ==
  IF raw = <<>> THEN out
  ELSE IF upper(raw[1]) \in ban THEN EntityFilter(Tail(raw), out)
  ELSE IF Len(raw[1]) < 3 THEN EntityFilter(Tail(raw), out)
  ELSE EntityFilter(Tail(raw), Append(out, strip(raw[1])))

\* the loop without the test "if e not in seen"
DedupeKeepAll(out, ordered) == ordered \o out

\* the loop of lines 81-84
RECURSIVE Dedupe(_, _)
Dedupe(out, ordered) ==
  IF out = <<>> THEN ordered
  ELSE IF ~ Contains(ordered, out[1]) THEN Dedupe(Tail(out), Append(ordered, out[1]))
  ELSE Dedupe(Tail(out), ordered)

extract_entities(s, max_n) ==
  Take(Dedupe(EntityFilter(ENTITY_PATTERN(s), <<>>), <<>>), max_n)

-----------------------------------------------------------------------------
(* extract_actions                                                         *)

IsAction(w) == w \in COMMON_VERBS \/ endswith(w, <<"i","n","g">>)

\* Counter(iterable): the items (word, count) in order of first insertion
RECURSIVE Counter(_, _)
Counter(words, counts) ==
  IF words = <<>> THEN counts
  ELSE IF \E i \in 1..Len(counts) : counts[i][1] = words[1]
       THEN Counter(Tail(words),
                    [i \in 1..Len(counts) |->
                       IF counts[i][1] = words[1]
                       THEN <<counts[i][1], counts[i][2] + 1>> ELSE counts[i]])
       ELSE Counter(Tail(words), Append(counts, <<words[1], 1>>))

\* an unstable sort: an item goes before the items of equal count
RECURSIVE InsertByCountUnstable(_, _, _)
InsertByCountUnstable(sorted, x, i) ==
  IF i > Len(sorted) THEN Append(sorted, x)
  ELSE IF sorted[i][2] <= x[2]
       THEN SubSeq(sorted, 1, i - 1) \o <<x>> \o SubSeq(sorted, i, Len(sorted))
       ELSE InsertByCountUnstable(sorted, x, i + 1)

\* Counter.most_common: sorted(items, key=count, reverse=True)[:n], stable
RECURSIVE InsertByCount(_, _, _)
InsertByCount(sorted, x, i) ==
  IF i > Len(sorted) THEN Append(sorted, x)
  ELSE IF sorted[i][2] < x[2]
       THEN SubSeq(sorted, 1, i - 1) \o <<x>> \o SubSeq(sorted, i, Len(sorted))
       ELSE InsertByCount(sorted, x, i + 1)

RECURSIVE SortByCount(_, _)
SortByCount(items, sorted) ==
  IF items = <<>> THEN sorted
  ELSE SortByCount(Tail(items), InsertByCount(sorted, items[1], 1))

most_common(counts, n) == Take(SortByCount(counts, <<>>), n)

extract_actions(s, max_n) ==
  LET common == most_common(Counter(SelectSeq(Words(s), IsAction), <<>>), max_n)
  IN  [i \in 1..Len(common) |-> common[i][1]]

-----------------------------------------------------------------------------
(* extract_emotions                                                        *)

\* the loop leaving at its first hit
HitsFirst(s) ==
  LET t == lower(s)
      matched == SelectSeq(EMOTION_LEX,
                   LAMBDA item : \E i \in 1..Len(item.kws) : IsSubstring(item.kws[i], t))
  IN  [i \in 1..(IF Len(matched) > 1 THEN 1 ELSE Len(matched)) |-> matched[i].label]

\* the loop of lines 95-97 over EMOTION_LEX.items()
Hits(s) ==
  LET t == lower(s)
      matched == SelectSeq(EMOTION_LEX,
                   LAMBDA item : \E i \in 1..Len(item.kws) : IsSubstring(item.kws[i], t))
  IN  [i \in 1..Len(matched) |-> matched[i].label]

order == <<"happy", "calm", "hope", "romance", "surprise", "fear", "sad", "angry">>

\* extract_emotions returning hits, without the reordering of lines 99-100
extract_emotions_hits(s) == Hits(s)

extract_emotions(s) ==
  LET hits == Hits(s) IN SelectSeq(order, LAMBDA e : Contains(hits, e))

-----------------------------------------------------------------------------
(* Analysis and analyze_text                                               *)

\* the dataclass Analysis
Analysis(kws, ents, acts, emos) ==
  [keywords |-> kws, entities |-> ents, actions |-> acts, emotions |-> emos]

\* the default arguments of extract_keywords, extract_entities, extract_actions
DefaultTopK == 25

DefaultMaxN == 20

analyze_text(s) ==
  Analysis(extract_keywords(s, DefaultTopK),
           extract_entities(s, DefaultMaxN),
           extract_actions(s, DefaultMaxN),
           extract_emotions(s))

-----------------------------------------------------------------------------
(* build_queries                                                           *)

\* add(q) with the test of line 120 reduced to "if q"
add_unchecked(combos, q) == IF q # <<>> THEN Append(combos, q) ELSE combos

\* the closure add(q) of lines 117-121, on the list combos
add(combos, q) ==
  LET word_count == Len(split(q))
  IN  IF q # <<>> /\ ~ Contains(combos, q) /\ 1 <= word_count /\ word_count <= 6
      THEN Append(combos, q)
      ELSE combos

\* for q in qs: add(q)
RECURSIVE AddAll(_, _)
AddAll(combos, qs) ==
  IF qs = <<>> THEN combos ELSE AddAll(add(combos, qs[1]), Tail(qs))

\* the inner loop of lines 137-140 for one action a
RECURSIVE ComboInner(_, _, _, _)
ComboInner(combos, a, ks, lim) ==
  IF ks = <<>> THEN combos
  ELSE IF Len(combos) >= lim THEN combos
  ELSE ComboInner(add(combos, a \o <<" ">> \o ks[1]), a, Tail(ks), lim)

\* the outer loop of lines 136-140
RECURSIVE ComboOuter(_, _, _, _)
ComboOuter(combos, as, ks, lim) ==
  IF as = <<>> THEN combos
  ELSE ComboOuter(ComboInner(combos, as[1], ks, lim), Tail(as), ks, lim)

\* the number of leading keywords and of entities build_queries looks at
TopTerms == 15

TopEntities == 4

\* top_terms = [k for k,_ in analysis.keywords[:15]]
top_terms(a) ==
  LET top == Take(a.keywords, TopTerms) IN [i \in 1..Len(top) |-> top[i][1]]

\* lines 124-125 with top_terms[:limit - 1] in place of top_terms[:limit]
KeywordStepShort(a, lim) ==
  AddAll(<<>>, Take(top_terms(a), IF lim > 0 THEN lim - 1 ELSE 0))

\* lines 124-125: for k in top_terms[:limit]: add(k)
KeywordStep(a, lim) == AddAll(<<>>, Take(top_terms(a), lim))

\* lines 128-129: for e in analysis.entities[:4]: add(e)
EntityStep(combos, a) == AddAll(combos, Take(a.entities, TopEntities))

\* lines 133-140 combining every action, every short keyword of top_terms
ComboStepUntrimmed(combos, a, lim) ==
  LET short_terms == SelectSeq(top_terms(a), LAMBDA k : Len(split(k)) <= 2)
  IN  IF Len(combos) < lim
      THEN ComboOuter(combos, a.actions, Take(short_terms, 3), lim)
      ELSE combos

\* lines 133-140
ComboStep(combos, a, lim) ==
  LET short_terms == SelectSeq(Take(top_terms(a), 6), LAMBDA k : Len(split(k)) <= 2)
  IN  IF Len(combos) < lim
      THEN ComboOuter(combos, Take(a.actions, 3), Take(short_terms, 3), lim)
      ELSE combos

\* the list combos when line 142 is reached
Combos(a, lim) == ComboStep(EntityStep(KeywordStep(a, lim), a), a, lim)

\* build_queries returning combos in place of combos[:limit]
build_queries_unsliced(a, lim) == Combos(a, lim)

build_queries(a, lim) == Take(Combos(a, lim), lim)

-----------------------------------------------------------------------------
(* Inputs                                                                  *)

\* the pieces texts are built from: a stopword, a capitalised word leading a
\* run of seven words, a plain word, a verb of COMMON_VERBS, a word ending in
\* "ing", a punctuation character, an emotion trigger with no space behind it
Pieces ==
  { <<"t","h","e"," ">>,
    <<"S","a","d"," ","b"," ","c"," ","d"," ","e"," ","f"," ","g"," ">>,
    <<"s","u","n"," ">>,
    <<"c","u","t"," ">>,
    <<"i","n","g"," ">>,
    <<".">>,
    <<"h","o","p","e">> }

\* the text of tests/test_analyzer.py
ScenarioText ==
  <<"A"," ","b","a","r","i","s","t","a"," ","w","i","p","e","s"," ">>
  \o <<"t","h","e"," ","c","o","u","n","t","e","r","."," ">>
  \o <<"S","t","e","a","m"," ","r","i","s","e","s","."," ">>
  \o <<"H","o","p","e","f","u","l"," ","m","o","o","d",".">>

\* whitespace only, all upper case
DegenerateTexts ==
  { <<" ","\n","\t"," ">>,
    <<"T","H","E"," ","S","U","N"," ","I","N","T",".">> }

RECURSIVE TextsOf(_)
TextsOf(n) ==
  IF n = 0 THEN {<<>>}
  ELSE LET S == TextsOf(n - 1) IN S \cup {t \o p : t \in S, p \in Pieces}

\* a name three times, a two-word name, names that are too short or banned
EntityText ==
  <<"B","o","b"," ","m","e","t"," ","A","l","."," ">>
  \o <<"B","o","b",","," ","N","e","w"," ","Y","o","r">>
  \o <<"k",";"," ","I","n","t",","," ","B","o","b",".">>
  \o <<" ","D","a","y",","," ","R","o","m","e">>

\* banned names, and a short name joined to the next capitalized word
BannedText ==
  <<"N","i","g","h","t"," ","f","a","l","l","s",".">>
  \o <<" ","E","x","t",","," ","I","o"," ","S","a","d">>
  \o <<" ","s","u","n">>

EntityTexts == {EntityText, BannedText}

\* a word that stands alone and inside a long phrase, and a two-word phrase
RankText ==
  <<"s","u","n"," ","t","h","e"," ","s","u","n"," ">>
  \o <<"S","a","d"," ","b"," ","c"," ","d"," ","e"," ">>
  \o <<"f"," ","g"," ","t","h","e"," ","c","u","t"," ">>
  \o <<"i","n","g"," ">>

\* verbs in upper and lower case, counts 1, 3 and 2 against the order of
\* first occurrence
ActionText ==
  <<"S","i","n","g",","," ","R","U","N"," ","r","u">>
  \o <<"n","."," ","W","a","l","k","i","n","g"," ","w">>
  \o <<"a","l","k","i","n","g",";"," ","s","u","n"," ">>
  \o <<"R","u","n">>

Texts ==
  TextsOf(MaxPieces) \cup DegenerateTexts \cup {ScenarioText} \cup EntityTexts
    \cup {RankText, ActionText}

\* the pieces the texts of a multi-call session are built from
SessionPieces ==
  { <<"t","h","e"," ">>, <<"s","u","n"," ">>, <<"c","u","t"," ">>, <<"h","o","p","e">> }

RECURSIVE SessionTextsOf(_)
SessionTextsOf(n) ==
  IF n = 0 THEN {<<>>}
  ELSE LET S == SessionTextsOf(n - 1) IN S \cup {t \o p : t \in S, p \in SessionPieces}

SessionTexts == SessionTextsOf(MaxSessionPieces)

\* keyword phrases of a constructed Analysis: one word, two words (an action
\* followed by a keyword), six words, seven words
KeywordPool ==
  { <<"s","u","n">>,
    <<"c","u","t"," ","s","u","n">>,
    <<"a"," ","b"," ","c"," ","d"," ","e"," ","f">>,
    <<"a"," ","b"," ","c"," ","d"," ","e"," ","f"," ","g">> }

\* twenty further keyword phrases, all different
Filler ==
  << <<"k","0","1">>, <<"k","0","2">>, <<"k","0","3">>, <<"k","0","4">>, <<"k","0","5">>,
     <<"k","0","6">>, <<"k","0","7">>, <<"k","0","8">>, <<"k","0","9">>, <<"k","1","0">>,
     <<"k","1","1">>, <<"k","1","2">>, <<"k","1","3">>, <<"k","1","4">>, <<"k","1","5">>,
     <<"k","1","6">>, <<"k","1","7">>, <<"k","1","8">>, <<"k","1","9">>, <<"k","2","0">> >>

\* the score analyzer_gemini.py gives every keyword
One == [num |-> 1, den |-> 1]

\* no keyword, fewer keywords than build_queries looks at, twenty keywords
KeywordCounts == {0, 2, 20}

\* eight keywords of which only one of the six leading ones is short
LongHeadKeywords ==
  LET six == <<"a"," ","b"," ","c"," ","d"," ","e"," ","f">>
      seven == <<"a"," ","b"," ","c"," ","d"," ","e"," ","f"," ","g">>
      ks == <<six, seven, six, seven, six, <<"s","u","n">>,
              <<"c","u","t"," ","s","u","n">>, <<"k","0","8">> >>
  IN  [i \in 1..Len(ks) |-> <<ks[i], One>>]

\* the first MaxHead keywords vary over KeywordPool
KeywordLists ==
  { Take([i \in 1..Len(Filler) |->
            IF i <= MaxHead THEN <<h[i], One>> ELSE <<Filler[i], One>>], n) :
      h \in [1..MaxHead -> KeywordPool], n \in KeywordCounts }
    \cup {LongHeadKeywords}

EntityLists ==
  { <<>>,
    << <<"S","a","d">> >>,
    << <<"s","u","n">>, <<"N","e","w"," ","Y","o","r","k">> >> }

\* no action, more actions than build_queries combines
ActionLists ==
  { <<>>, << <<"r","e","d">>, <<"c","u","t">>, <<"r","u","n">>, <<"s","i","t">> >> }

Analyses ==
  { Analysis(k, e, a, <<>>) : k \in KeywordLists, e \in EntityLists, a \in ActionLists }

-----------------------------------------------------------------------------
(* State machine                                                           *)

NoAnalysis == [none |-> TRUE]

NoText == <<"none">>

NoLimit == -1

NoGemini == [none |-> TRUE]

NoSearch == [none |-> TRUE]

\* build_queries(analysis, limit: int = 12)
DefaultLimit == 12

TypeOK ==
  /\ op \in {"init", "analyze_text", "extract_keywords", "build_queries",
             "extract_entities", "extract_actions", "analyze_text_with_gemini", "analyze_text_smart",
             "app_analyze", "search_all"}
  /\ raised \in BOOLEAN
  /\ limit \in {NoLimit, DefaultLimit} \cup 0..(MaxLimit + MaxTextLimit)
  /\ prevLimit \in {NoLimit, DefaultLimit} \cup 0..(MaxLimit + MaxTextLimit)
  /\ entity_max_n \in {NoLimit} \cup Nat
  /\ action_max_n \in {NoLimit} \cup Nat
  /\ refPhase \in {"none", "taken", "other", "again"}

InitCommon ==
  /\ STOPWORDS = STOPWORDS_0
  /\ EMOTION_LEX = EMOTION_LEX_0
  /\ COMMON_VERBS = COMMON_VERBS_0
  /\ op = "init"
  /\ raised = FALSE
  /\ top_k = NoLimit
  /\ keywords = <<>>
  /\ limit = NoLimit
  /\ queries = <<>>
  /\ prevLimit = NoLimit
  /\ prevQueries = <<>>
  /\ refText = NoText
  /\ refAnalysis = NoAnalysis
  /\ refPhase = "none"
  /\ entity_max_n = NoLimit
  /\ entities = <<>>
  /\ action_max_n = NoLimit
  /\ actions = <<>>
  /\ gemini = NoGemini
  /\ search = NoSearch

\* one text, not yet analysed
Init ==
  /\ InitCommon
  /\ text \in Texts
  /\ analysis = NoAnalysis

\* a session that has not analysed anything yet
InitSession ==
  /\ InitCommon
  /\ text = NoText
  /\ analysis = NoAnalysis

\* an Analysis constructed by the caller (as analyzer_gemini.py does)
InitQueries ==
  /\ InitCommon
  /\ text = NoText
  /\ analysis \in Analyses

\* history: another operation follows the remembered call
Since == IF refPhase = "none" THEN "none" ELSE "other"

\* the call analyze_text(t) and its outcome
AnalyzeCall(t) ==
  /\ text' = t
  /\ op' = "analyze_text"
  /\ raised' = ScoreRaises(_candidate_phrases(t))
  /\ analysis' = IF raised' THEN NoAnalysis ELSE analyze_text(t)
  /\ limit' = NoLimit
  /\ queries' = <<>>
  /\ prevLimit' = NoLimit
  /\ prevQueries' = <<>>
  /\ top_k' = NoLimit
  /\ keywords' = <<>>
  /\ UNCHANGED <<entity_max_n, entities, action_max_n, actions, gemini, search>>
  /\ IF refPhase = "none"
     THEN \E remember \in BOOLEAN :
            IF remember
            THEN refText' = t /\ refAnalysis' = analysis' /\ refPhase' = "taken"
            ELSE UNCHANGED <<refText, refAnalysis, refPhase>>
     ELSE /\ UNCHANGED <<refText, refAnalysis>>
          /\ refPhase' = IF t # refText THEN "other"
                          ELSE IF refPhase = "taken" THEN "taken" ELSE "again"

\* analyze_text(t) adding the words of t to the module-level STOPWORDS
AnalyzeTextPolluting(t) ==
  /\ AnalyzeCall(t)
  /\ STOPWORDS' = STOPWORDS \cup {Words(t)[i] : i \in 1..Len(Words(t))}
  /\ UNCHANGED <<EMOTION_LEX, COMMON_VERBS>>

\* analyze_text(t)
AnalyzeText(t) ==
  /\ AnalyzeCall(t)
  /\ UNCHANGED <<STOPWORDS, EMOTION_LEX, COMMON_VERBS>>

\* extract_keywords(t, k)
ExtractKeywords(t, k) ==
  /\ text' = t
  /\ op' = "extract_keywords"
  /\ top_k' = k
  /\ raised' = ScoreRaises(_candidate_phrases(t))
  /\ keywords' = IF raised' THEN <<>> ELSE extract_keywords(t, k)
  /\ analysis' = NoAnalysis
  /\ limit' = NoLimit
  /\ queries' = <<>>
  /\ prevLimit' = NoLimit
  /\ prevQueries' = <<>>
  /\ refPhase' = Since
  /\ UNCHANGED <<STOPWORDS, EMOTION_LEX, COMMON_VERBS, refText, refAnalysis,
                 entity_max_n, entities, action_max_n, actions, gemini, search>>

\* extract_entities(t, n)
ExtractEntities(t, n) ==
  /\ text' = t
  /\ op' = "extract_entities"
  /\ raised' = FALSE
  /\ entity_max_n' = n
  /\ entities' = extract_entities(t, n)
  /\ analysis' = NoAnalysis
  /\ limit' = NoLimit
  /\ queries' = <<>>
  /\ prevLimit' = NoLimit
  /\ prevQueries' = <<>>
  /\ top_k' = NoLimit
  /\ keywords' = <<>>
  /\ refPhase' = Since
  /\ UNCHANGED <<STOPWORDS, EMOTION_LEX, COMMON_VERBS, refText, refAnalysis,
                 action_max_n, actions, gemini, search>>

\* extract_actions(t, n)
ExtractActions(t, n) ==
  /\ text' = t
  /\ op' = "extract_actions"
  /\ raised' = FALSE
  /\ action_max_n' = n
  /\ actions' = extract_actions(t, n)
  /\ analysis' = NoAnalysis
  /\ limit' = NoLimit
  /\ queries' = <<>>
  /\ prevLimit' = NoLimit
  /\ prevQueries' = <<>>
  /\ top_k' = NoLimit
  /\ keywords' = <<>>
  /\ refPhase' = Since
  /\ UNCHANGED <<STOPWORDS, EMOTION_LEX, COMMON_VERBS, refText, refAnalysis,
                 entity_max_n, entities, gemini, search>>

\* build_queries(analysis, n)
BuildQueries(n) ==
  /\ analysis # NoAnalysis
  /\ op' = "build_queries"
  /\ raised' = FALSE
  /\ limit' = n
  /\ queries' = build_queries(analysis, n)
  /\ prevLimit' = limit
  /\ prevQueries' = queries
  /\ refPhase' = Since
  /\ UNCHANGED <<STOPWORDS, EMOTION_LEX, COMMON_VERBS, text, analysis, top_k, keywords,
                 refText, refAnalysis, entity_max_n, entities, action_max_n, actions,
                 gemini, search>>

\* one text is processed: extract_keywords is called on it, or analyze_text
\* and then build_queries on the Analysis it returned, first with the default
\* limit (app.py:158-182)
Next ==
  \/ op = "init" /\ AnalyzeText(text)
  \/ op = "init" /\ \E k \in 0..MaxTopK : ExtractKeywords(text, k)
  \/ op = "init" /\ \E n \in 0..MaxEntities : ExtractEntities(text, n)
  \/ op = "init" /\ \E n \in 0..MaxActions : ExtractActions(text, n)
  \/ op = "analyze_text" /\ BuildQueries(DefaultLimit)
  \/ \E n \in 0..MaxTextLimit : BuildQueries(n)

Spec == Init /\ [][Next]_vars

NextSession ==
  \/ \E t \in SessionTexts : AnalyzeText(t)
  \/ \E n \in 0..MaxTextLimit : BuildQueries(n)

SpecSession == InitSession /\ [][NextSession]_vars

NextQueries == \E n \in 0..MaxLimit : BuildQueries(n)

SpecQueries == InitQueries /\ [][NextQueries]_vars

-----------------------------------------------------------------------------
(* analyzer_gemini.py: the AI analyzer and its fallbacks                    *)

\* the values json.loads can return, and a key that the object does not have
JStr(s) == [t |-> "str", v |-> s]

JList(items) == [t |-> "list", v |-> items]

JNull == [t |-> "null", v |-> <<>>]

JNum == [t |-> "num", v |-> <<>>]

JAbsent == [t |-> "absent", v |-> <<>>]

JObject(k, e, a, m) ==
  [t |-> "object", keywords |-> k, entities |-> e, actions |-> a, emotions |-> m]

\* data.get(key, [])
Get(field) == IF field.t = "absent" THEN JList(<<>>) ELSE field

\* "for x in value" raises TypeError unless the value is iterable
IterRaises(value) == value.t \notin {"str", "list"}

\* the values "for x in value" yields: the items of a list, the characters
\* of a str
Items(value) ==
  IF value.t = "str" THEN [i \in 1..Len(value.v) |-> JStr(<<value.v[i]>>)]
  ELSE value.v

\* x.strip() and x.split() raise AttributeError unless x is a str
AttrRaises(items) == \E i \in 1..Len(items) : items[i].t # "str"

\* str.strip(c) for a one-character c
RECURSIVE StripChar(_, _)
StripChar(s, c) ==
  IF s = <<>> THEN s
  ELSE IF s[1] = c THEN StripChar(Tail(s), c)
  ELSE IF s[Len(s)] = c THEN StripChar(SubSeq(s, 1, Len(s) - 1), c)
  ELSE s

\* words[-n:]
Last(words, n) ==
  IF n >= Len(words) THEN words ELSE SubSeq(words, Len(words) - n + 1, Len(words))

\* the score clean_keywords gives every keyword
CleanScore == [num |-> 1, den |-> 1]

\* "if x.lower() not in seen: cleaned.append((x, 1.0)); seen.add(x.lower())"
\* on the pair (cleaned, seen)
Keep(cs, x) ==
  IF lower(x) \in cs.seen THEN cs
  ELSE [cleaned |-> Append(cs.cleaned, <<x, CleanScore>>),
        seen |-> cs.seen \cup {lower(x)}]

\* the longest keyword clean_keywords keeps whole
MaxKeywordWords == 4

RECURSIVE CleanLoop(_, _, _)
CleanLoop(items, i, cs) ==
  IF i > Len(items) THEN cs.cleaned
  ELSE LET keyword == StripChar(StripChar(strip(items[i].v), "\""), "'")
           words == split(keyword)
       IN  IF keyword = <<>> THEN CleanLoop(items, i + 1, cs)
           ELSE IF Len(words) > MaxKeywordWords
                THEN CleanLoop(items, i + 1,
                               Keep(Keep(cs, join(Last(words, 3))), join(Last(words, 2))))
                ELSE CleanLoop(items, i + 1, Keep(cs, keyword))

clean_keywords(raw_keywords) ==
  CleanLoop(raw_keywords, 1, [cleaned |-> <<>>, seen |-> {}])

\* fewer cleaned keywords than this and the basic analyzer is used instead
MinKeywords == 5

\* [x.strip() for x in items if len(x.split()) <= n]
ShortItems(items, n) ==
  LET kept == SelectSeq(items, LAMBDA x : Len(split(x.v)) <= n)
  IN  [i \in 1..Len(kept) |-> strip(kept[i].v)]

\* how a call ends
Raises == [raised |-> TRUE, result |-> NoAnalysis]

Returns(a) == [raised |-> FALSE, result |-> a]

\* analyze_text(t) as a call
Basic(t) ==
  IF ScoreRaises(_candidate_phrases(t)) THEN Raises ELSE Returns(analyze_text(t))

\* what generate_content and json.loads make of one request: the call or
\* reading response.text raises, the text is not JSON, or json.loads returns
\* a value
ApiError == [kind |-> "api_error", data |-> JNull]

NotJson == [kind |-> "not_json", data |-> JNull]

Parsed(value) == [kind |-> "json", data |-> value]

\* analyze_text_with_gemini, lines 143-170: the parsed value becomes an
\* Analysis; any exception inside the try block ends in the handler of
\* line 179
FromData(t, data) ==
  IF data.t # "object" THEN Basic(t)
  ELSE LET raw == Get(data.keywords)
       IN  IF IterRaises(raw) \/ AttrRaises(Items(raw)) THEN Basic(t)
           ELSE LET kws == clean_keywords(Items(raw))
                    ents == Get(data.entities)
                    acts == Get(data.actions)
                    emos == Get(data.emotions)
                IN  IF Len(kws) < MinKeywords THEN Basic(t)
                    ELSE IF \E f \in {ents, acts, emos} :
                              IterRaises(f) \/ AttrRaises(Items(f))
                         THEN Basic(t)
                         ELSE Returns(Analysis(kws,
                                               ShortItems(Items(ents), 4),
                                               ShortItems(Items(acts), 3),
                                               ShortItems(Items(emos), 2)))

\* analyze_text_with_gemini(t) with GOOGLE_API_KEY set or not and the reply
\* the request gets
analyze_text_with_gemini(t, key, reply) ==
  IF ~ key THEN Raises
  ELSE IF reply.kind = "api_error" THEN Basic(t)
  ELSE IF reply.kind = "not_json" THEN Basic(t)
  ELSE FromData(t, reply.data)

\* analyze_text_smart(t, use_ai)
analyze_text_smart(t, use_ai, key, reply) ==
  IF use_ai /\ key
  THEN LET r == analyze_text_with_gemini(t, key, reply)
       IN  IF r.raised THEN Basic(t) ELSE r
  ELSE Basic(t)

\* the analyzer choice of app.py
app_analyze(t, use_ai, available, key, reply) ==
  IF use_ai /\ available /\ key
  THEN LET r == analyze_text_with_gemini(t, key, reply)
       IN  IF r.raised THEN Basic(t) ELSE r
  ELSE Basic(t)

\* replies: keyword lists the model may send
GoodKeywords ==
  JList(<<JStr(<<"s","u","n">>), JStr(<<" ","\"","r","e","d"," ","c","a","r","\""," ">>), JStr(<<"S","u","n">>), JStr(<<"c","u","t">>), JStr(<<" "," ">>), JStr(<<"a"," ","c","r","o","w","d","e","d"," ","s","t","r","e","e","t"," ","m","a","r","k","e","t"," ","n","i","g","h","t">>), JStr(<<"'","s","e","a","'">>)>>)

FewKeywords ==
  JList(<<JStr(<<"s","u","n">>), JStr(<<"S","U","N">>), JStr(<<"a"," ","b"," ","c"," ","d"," ","e">>), JStr(<<"\"","\"">>)>>)

GoodEntities == JList(<<JStr(<<"P","a","r","i","s">>), JStr(<<"T","h","e"," ","O","l","d"," ","T","o","w","n"," ","H","a","l","l"," ","S","q","u","a","r","e">>)>>)

GoodActions == JList(<<JStr(<<" ","r","u","n","n","i","n","g"," ">>), JStr(<<"i","s"," ","w","a","l","k","i","n","g"," ","v","e","r","y"," ","s","l","o","w","l","y">>)>>)

GoodEmotions == JList(<<JStr(<<"c","a","l","m">>), JStr(<<"q","u","i","e","t"," ","a","n","d"," ","t","e","n","s","e">>)>>)

\* well-formed objects, objects of the wrong shape, values that are no object
ReplyData ==
  { JObject(GoodKeywords, GoodEntities, GoodActions, GoodEmotions),
    JObject(GoodKeywords, JAbsent, JAbsent, JAbsent),
    JObject(FewKeywords, GoodEntities, GoodActions, GoodEmotions),
    JObject(JAbsent, GoodEntities, GoodActions, GoodEmotions),
    JObject(JNull, GoodEntities, GoodActions, GoodEmotions),
    JObject(JList(<<JStr(<<"s","u","n">>), JNum>>), GoodEntities, GoodActions, GoodEmotions),
    JObject(JStr(<<"s","t","r","e","e","t"," ","m","a","r","k","e","t">>), GoodEntities, GoodActions, GoodEmotions),
    JObject(GoodKeywords, JNull, GoodActions, GoodEmotions),
    JObject(GoodKeywords, JStr(<<"P","a","r","i","s">>), GoodActions, GoodEmotions),
    JObject(GoodKeywords, GoodEntities, JList(<<JNum>>), GoodEmotions),
    JList(<<JStr(<<"s","u","n">>)>>),
    JStr(<<"s","u","n">>),
    JNull }

Replies == {ApiError, NotJson} \cup {Parsed(d) : d \in ReplyData}

\* an analyzer call that ends as r, remembered with its environment g
Attempt(t, name, g, r) ==
  /\ text' = t
  /\ op' = name
  /\ raised' = r.raised
  /\ analysis' = r.result
  /\ gemini' = g
  /\ limit' = NoLimit
  /\ queries' = <<>>
  /\ prevLimit' = NoLimit
  /\ prevQueries' = <<>>
  /\ top_k' = NoLimit
  /\ keywords' = <<>>
  /\ refPhase' = Since
  /\ UNCHANGED <<STOPWORDS, EMOTION_LEX, COMMON_VERBS, refText, refAnalysis,
                 entity_max_n, entities, action_max_n, actions, search>>

\* analyze_text_with_gemini(t) called directly
AnalyzeTextWithGemini(t, key, reply) ==
  Attempt(t, "analyze_text_with_gemini",
          [key |-> key, use_ai |-> TRUE, available |-> TRUE, reply |-> reply],
          analyze_text_with_gemini(t, key, reply))

\* analyze_text_smart(t, use_ai)
AnalyzeTextSmart(t, use_ai, key, reply) ==
  Attempt(t, "analyze_text_smart",
          [key |-> key, use_ai |-> use_ai, available |-> TRUE, reply |-> reply],
          analyze_text_smart(t, use_ai, key, reply))

\* the application analyses one block of text
AppAnalyze(t, use_ai, available, key, reply) ==
  Attempt(t, "app_analyze",
          [key |-> key, use_ai |-> use_ai, available |-> available, reply |-> reply],
          app_analyze(t, use_ai, available, key, reply))

InitGemini ==
  /\ InitCommon
  /\ text = NoText
  /\ analysis = NoAnalysis

\* one text is analysed, by one of the three entry points
NextGemini ==
  \/ op = "init" /\ \E t \in SessionTexts, key \in BOOLEAN, reply \in Replies :
       AnalyzeTextWithGemini(t, key, reply)
  \/ op = "init" /\ \E t \in SessionTexts, use_ai, key \in BOOLEAN, reply \in Replies :
       AnalyzeTextSmart(t, use_ai, key, reply)
  \/ op = "init" /\ \E t \in SessionTexts, use_ai, available, key \in BOOLEAN,
                        reply \in Replies :
       AppAnalyze(t, use_ai, available, key, reply)

SpecGemini == InitGemini /\ [][NextGemini]_vars

-----------------------------------------------------------------------------
(* search.py and providers/: the multi-provider search                     *)

MaxRecords == 1         \* a provider returns at most MaxRecords records

\* self.providers, in order
Providers == <<"Pexels", "Pixabay", "Unsplash">>

ProviderNames == {Providers[i] : i \in 1..Len(Providers)}

MediaTypes == {"photo", "video"}

\* what the HTTP request of a provider does: it fails (HTTP error status,
\* timeout, network error), it delivers a payload the parsing code chokes
\* on, or it delivers n records
RequestFails == [kind |-> "request_fails", n |-> 0]

Malformed == [kind |-> "malformed", n |-> 0]

Delivers(n) == [kind |-> "delivers", n |-> n]

Outcomes == {RequestFails, Malformed} \cup {Delivers(n) : n \in 0..MaxRecords}

\* a record parsed out of the payload
Record(name, media_type, i) ==
  [provider |-> name, url |-> "page", media_type |-> media_type, extra |-> [id |-> i]]

\* the stub record of search_all
Placeholder(name, media_type) ==
  [provider |-> name, url |-> "#", media_type |-> media_type, extra |-> [error |-> TRUE]]

\* r.extra.get("error")
IsError(r) == "error" \in DOMAIN r.extra /\ r.extra.error

\* how Provider.search ends
SearchRaises == [raised |-> TRUE, out |-> <<>>]

SearchReturns(out) == [raised |-> FALSE, out |-> out]

\* PexelsProvider.search, PixabayProvider.search, UnsplashProvider.search:
\* has_key is bool(self.api_key)
ProviderSearch(name, has_key, media_type, outcome) ==
  IF ~ has_key THEN SearchReturns(<<>>)
  ELSE IF name = "Unsplash" /\ media_type = "video" THEN SearchReturns(<<>>)
  ELSE IF outcome = RequestFails THEN SearchReturns(<<>>)
  ELSE IF outcome = Malformed THEN SearchRaises
  ELSE SearchReturns([i \in 1..outcome.n |->
                        Record(name, IF name = "Unsplash" THEN "photo" ELSE media_type, i)])

\* self.enabled.get(name, True)
EnabledGet(enabled, name) ==
  IF name \in DOMAIN enabled THEN enabled[name] ELSE TRUE

\* the loop of search_all without its try/except: the first exception of
\* a provider leaves the call
RECURSIVE SearchLoopUncaught(_, _, _, _, _)
SearchLoopUncaught(s, media_type, outcome, i, acc) ==
  IF i > Len(Providers) THEN acc
  ELSE LET name == Providers[i]
       IN  IF ~ EnabledGet(s.enabled, name)
           THEN SearchLoopUncaught(s, media_type, outcome, i + 1, acc)
           ELSE LET r == ProviderSearch(name, s.keys[name], media_type, outcome[name])
                    called == Append(acc.called, name)
                IN  IF r.raised
                    THEN [acc EXCEPT !.called = called, !.raised = TRUE]
                    ELSE SearchLoopUncaught(s, media_type, outcome, i + 1,
                           [acc EXCEPT !.called = called, !.results = @ \o r.out])

\* the loop of search_all over self.providers[i..]; acc holds the results
\* so far and, as history, the providers called
RECURSIVE SearchLoop(_, _, _, _, _)
SearchLoop(s, media_type, outcome, i, acc) ==
  IF i > Len(Providers) THEN acc
  ELSE LET name == Providers[i]
       IN  IF ~ EnabledGet(s.enabled, name)
           THEN SearchLoop(s, media_type, outcome, i + 1, acc)
           ELSE LET r == ProviderSearch(name, s.keys[name], media_type, outcome[name])
                    called == Append(acc.called, name)
                IN  IF r.raised
                    THEN SearchLoop(s, media_type, outcome, i + 1,
                           [acc EXCEPT !.called = called,
                                       !.results = Append(@, Placeholder(name, media_type))])
                    ELSE SearchLoop(s, media_type, outcome, i + 1,
                           [acc EXCEPT !.called = called, !.results = @ \o r.out])

\* MediaSearcher.search_all(query, limit, media_type) on the searcher s
search_all(s, media_type, outcome) ==
  SearchLoop(s, media_type, outcome, 1,
             [media_type |-> media_type, outcome |-> outcome, raised |-> FALSE,
              called |-> <<>>, results |-> <<>>])

NoCall == [none |-> TRUE]

\* the dicts a caller can pass as enabled: any names, any values
EnabledDicts ==
  UNION { [D -> BOOLEAN] : D \in SUBSET ProviderNames }

\* MediaSearcher.__init__(settings, enabled)
MediaSearcher(keys, enabled) ==
  [keys |-> keys,
   enabled |-> IF DOMAIN enabled = {} THEN [n \in ProviderNames |-> TRUE] ELSE enabled,
   call |-> NoCall]

InitSearch ==
  /\ STOPWORDS = STOPWORDS_0
  /\ EMOTION_LEX = EMOTION_LEX_0
  /\ COMMON_VERBS = COMMON_VERBS_0
  /\ op = "init"
  /\ raised = FALSE
  /\ top_k = NoLimit
  /\ keywords = <<>>
  /\ limit = NoLimit
  /\ queries = <<>>
  /\ prevLimit = NoLimit
  /\ prevQueries = <<>>
  /\ refText = NoText
  /\ refAnalysis = NoAnalysis
  /\ refPhase = "none"
  /\ entity_max_n = NoLimit
  /\ entities = <<>>
  /\ action_max_n = NoLimit
  /\ actions = <<>>
  /\ gemini = NoGemini
  /\ text = NoText
  /\ analysis = NoAnalysis
  /\ \E keys \in [ProviderNames -> BOOLEAN], enabled \in EnabledDicts :
       search = MediaSearcher(keys, enabled)

\* searcher.set_enabled(name, value)
SetEnabled(name, value) ==
  /\ search' = [search EXCEPT !.enabled =
                  [n \in DOMAIN search.enabled \cup {name} |->
                     IF n = name THEN value ELSE search.enabled[n]]]
  /\ UNCHANGED <<STOPWORDS, EMOTION_LEX, COMMON_VERBS, text, analysis, op, raised,
                 top_k, keywords, limit, queries, prevLimit, prevQueries,
                 refText, refAnalysis, refPhase, entity_max_n, entities,
                 action_max_n, actions, gemini>>

\* searcher.search_all(query, limit, media_type), each provider's request
\* ending as outcome says
SearchAll(media_type, outcome) ==
  /\ search' = [search EXCEPT !.call = search_all(search, media_type, outcome)]
  /\ op' = "search_all"
  /\ raised' = search'.call.raised
  /\ UNCHANGED <<STOPWORDS, EMOTION_LEX, COMMON_VERBS, text, analysis,
                 top_k, keywords, limit, queries, prevLimit, prevQueries,
                 refText, refAnalysis, refPhase, entity_max_n, entities,
                 action_max_n, actions, gemini>>

\* a searcher is configured, then one query is sent to the providers
NextSearch ==
  \/ op = "init" /\ \E name \in ProviderNames, value \in BOOLEAN : SetEnabled(name, value)
  \/ op = "init" /\ \E media_type \in MediaTypes, outcome \in [ProviderNames -> Outcomes] :
       SearchAll(media_type, outcome)

SpecSearch == InitSearch /\ [][NextSearch]_vars

-----------------------------------------------------------------------------
(* Properties                                                              *)

\* the number of whitespace-separated words of a string
WordCount(q) == Len(split(q))

\* the phrases of a list of (phrase, score) pairs
PhrasesOf(kws) == [i \in 1..Len(kws) |-> kws[i][1]]

\* C1: build_queries(analysis, limit=N) returns at most N entries, for every
\* Analysis and every N >= 0.
C1_AtMostLimit ==
  op = "build_queries" => Len(queries) <= limit

\* a call cut down to its limit although keywords, entities and actions
\* together offered more
C1_Witness ==
  /\ op = "build_queries"
  /\ limit = 2
  /\ Len(queries) = 2
  /\ Len(Combos(analysis, limit)) > limit

\* C2: prefix stability: for limits N1 < N2 on the same Analysis, the first N1
\* entries of the N2-limited result are the N1-limited result.
C2_PrefixStable ==
  (op = "build_queries" /\ prevLimit # NoLimit) =>
     /\ prevLimit < limit => Take(queries, prevLimit) = prevQueries
     /\ limit < prevLimit => Take(prevQueries, limit) = queries

\* C3: the list build_queries returns holds no two equal strings, and every
\* entry has between 1 and 6 whitespace-separated words.
C3_DistinctShort ==
  op = "build_queries" =>
     /\ NoDuplicates(queries)
     /\ \A i \in 1..Len(queries) : 1 <= WordCount(queries[i]) /\ WordCount(queries[i]) <= 6

\* a seven-word keyword and a repeated keyword were offered, and the result
\* holds a keyword, an entity and an action+keyword combination
C3_Witness ==
  /\ op = "build_queries"
  /\ limit = 5
  /\ Len(analysis.keywords) >= 3
  /\ WordCount(analysis.keywords[1][1]) = 7
  /\ analysis.keywords[2][1] = analysis.keywords[3][1]
  /\ Contains(queries, analysis.keywords[2][1])
  /\ Contains(queries, <<"N","e","w"," ","Y","o","r","k">>)
  /\ Contains(queries, <<"r","e","d"," ">> \o analysis.keywords[2][1])

\* the five highest-ranked keyword phrases
TopFive(a) == Take(PhrasesOf(a.keywords), 5)

\* C4 as stated: for every Analysis holding 20 keywords, whatever their phrase
\* lengths, build_queries(analysis, limit=5) returns exactly 5 entries, each
\* one of the 5 highest-ranked keyword phrases.
C4_AnyTwenty ==
  (op = "build_queries" /\ limit = 5 /\ Len(analysis.keywords) = 20) =>
     /\ Len(queries) = 5
     /\ \A i \in 1..Len(queries) : Contains(TopFive(analysis), queries[i])

\* C4 amended: for every Analysis holding 20 keywords whose 5 highest-ranked
\* phrases are pairwise different and have 1 to 6 words each,
\* build_queries(analysis, limit=5) returns exactly those 5 phrases in rank
\* order; no entity and no action+keyword combination is added.
C4_TopFive ==
  ( /\ op = "build_queries"
    /\ limit = 5
    /\ Len(analysis.keywords) = 20
    /\ NoDuplicates(TopFive(analysis))
    /\ \A i \in 1..5 : 1 <= WordCount(TopFive(analysis)[i])
                       /\ WordCount(TopFive(analysis)[i]) <= 6 )
  => queries = TopFive(analysis)

\* twenty keywords with five admissible leaders, entities and actions present
C4_Witness ==
  /\ op = "build_queries"
  /\ limit = 5
  /\ Len(analysis.keywords) = 20
  /\ NoDuplicates(TopFive(analysis))
  /\ \A i \in 1..5 : 1 <= WordCount(TopFive(analysis)[i])
                     /\ WordCount(TopFive(analysis)[i]) <= 6
  /\ WordCount(TopFive(analysis)[1]) = 6
  /\ analysis.entities # <<>>
  /\ analysis.actions # <<>>
  /\ Len(queries) = 5

\* C5: the Analysis analyze_text returns has no duplicate phrase text in
\* keywords, no duplicate in entities and no duplicate in actions.
C5_NoDuplicates ==
  op = "analyze_text" =>
     /\ NoDuplicates(PhrasesOf(analysis.keywords))
     /\ NoDuplicates(analysis.entities)
     /\ NoDuplicates(analysis.actions)

\* a text whose splitter produced the same phrase twice, with the same
\* capitalised word and the same action word occurring twice
C5_Witness ==
  /\ op = "analyze_text"
  /\ \E i, j \in 1..Len(_candidate_phrases(text)) :
        i < j /\ _candidate_phrases(text)[i] = _candidate_phrases(text)[j]
  /\ Len(analysis.keywords) < Len(_candidate_phrases(text))
  /\ \E i, j \in 1..Len(ENTITY_PATTERN(text)) :
        i < j /\ ENTITY_PATTERN(text)[i] = ENTITY_PATTERN(text)[j]
  /\ analysis.entities # <<>>

\* C6: the result of analyze_text depends only on its input text, whatever
\* calls on other inputs came before, and build_queries changes neither the
\* Analysis it is given nor any module-level state.
C6_DependsOnlyOnText ==
  [][ /\ (op' = "analyze_text" /\ text' = refText') => analysis' = refAnalysis'
      /\ op' = "build_queries" =>
            /\ analysis' = analysis
            /\ STOPWORDS' = STOPWORDS
            /\ EMOTION_LEX' = EMOTION_LEX
            /\ COMMON_VERBS' = COMMON_VERBS ]_vars

\* a text analysed a second time after calls on other inputs, with keywords
C6_Witness ==
  /\ op = "analyze_text"
  /\ refPhase = "again"
  /\ text = refText
  /\ analysis = refAnalysis
  /\ analysis.keywords # <<>>

\* the distinct phrase texts of the splitter's phrases, in the order produced
Candidates(s) == Dedupe(LET ph == _candidate_phrases(s)
                        IN  [i \in 1..Len(ph) |-> join(ph[i])], <<>>)

\* the position at which phrase text p was first produced
FirstSeen(s, p) == CHOOSE i \in 1..Len(Candidates(s)) : Candidates(s)[i] = p

\* the score _score_phrases gives phrase text p
ScoreOf(s, p) ==
  LET items == _score_phrases(_candidate_phrases(s))
  IN  items[CHOOSE i \in 1..Len(items) : items[i][1] = p][2]

\* p ranks before q: higher score, or equal score and produced earlier
RanksBefore(s, p, q) ==
  \/ ScoreLess(ScoreOf(s, q), ScoreOf(s, p))
  \/ ScoreEq(ScoreOf(s, q), ScoreOf(s, p)) /\ FirstSeen(s, p) < FirstSeen(s, q)

\* C7: extract_keywords returns at most top_k pairs, sorted by non-increasing
\* score, phrases of equal score in the order in which they were first
\* produced; the pairs are the top_k highest by that order among all distinct
\* candidate phrases.
C7_TopKRanked ==
  op = "extract_keywords" =>
     LET ks == PhrasesOf(keywords)
         cs == Candidates(text)
     IN  /\ Len(keywords) <= top_k
         /\ Len(keywords) = IF Len(cs) < top_k THEN Len(cs) ELSE top_k
         /\ \A i \in 1..Len(ks) : Contains(cs, ks[i]) /\ keywords[i][2] = ScoreOf(text, ks[i])
         /\ \A i, j \in 1..Len(ks) : i < j => RanksBefore(text, ks[i], ks[j])
         /\ \A i \in 1..Len(ks) : \A j \in 1..Len(cs) :
               ~ Contains(ks, cs[j]) => RanksBefore(text, ks[i], cs[j])

\* two phrases of equal score and a top_k that keeps only one of them
C7_Witness ==
  /\ op = "extract_keywords"
  /\ top_k = 1
  /\ Len(Candidates(text)) >= 2
  /\ ScoreEq(ScoreOf(text, Candidates(text)[1]), ScoreOf(text, Candidates(text)[2]))
  /\ PhrasesOf(keywords) = <<Candidates(text)[1]>>

\* the fixed order of the labels
C8_Order == <<"happy", "calm", "hope", "romance", "surprise", "fear", "sad", "angry">>

\* some trigger of the label is a substring of the lowercased text
Triggered(s, label) ==
  \E i \in 1..Len(EMOTION_LEX_0) :
     /\ EMOTION_LEX_0[i].label = label
     /\ \E j \in 1..Len(EMOTION_LEX_0[i].kws) : IsSubstring(EMOTION_LEX_0[i].kws[j], lower(s))

\* C8: extract_emotions returns a duplicate-free subsequence of the fixed order
\* [happy, calm, hope, romance, surprise, fear, sad, angry]; a label is present
\* exactly when one of its triggers is a substring of the lowercased text.
C8_CanonicalOrder ==
  op = "analyze_text" =>
     LET es == analysis.emotions
         pos(e) == CHOOSE i \in 1..Len(C8_Order) : C8_Order[i] = e
     IN  /\ \A i \in 1..Len(es) : Contains(C8_Order, es[i])
         /\ \A i, j \in 1..Len(es) : i < j => pos(es[i]) < pos(es[j])
         /\ \A i \in 1..Len(C8_Order) :
               Contains(es, C8_Order[i]) <=> Triggered(text, C8_Order[i])

\* a text that mentions sadness before hope, reported as hope before sad
C8_Witness ==
  /\ op = "analyze_text"
  /\ analysis.emotions = <<"hope", "sad">>
  /\ Len(text) > 3
  /\ SubSeq(text, 1, 3) = <<"S","a","d">>

\* C9: analyze_text("") returns an Analysis whose four lists are empty, and
\* build_queries on that Analysis returns the empty list for every limit.
C9_EmptyText ==
  text = <<>> =>
     /\ op = "analyze_text" => analysis = Analysis(<<>>, <<>>, <<>>, <<>>)
     /\ op = "build_queries" => analysis = Analysis(<<>>, <<>>, <<>>, <<>>) /\ queries = <<>>

\* the empty text analysed and its queries built with two different limits
C9_Witness ==
  /\ text = <<>>
  /\ op = "build_queries"
  /\ limit = 2
  /\ prevLimit = 0
  /\ queries = <<>>

\* C10: for every input string analyze_text returns an Analysis without
\* raising, and build_queries on any Analysis returns a list without raising.
C10_NeverRaises ==
  /\ ~ raised
  /\ op = "analyze_text" =>
        /\ analysis # NoAnalysis
        /\ DOMAIN analysis = {"keywords", "entities", "actions", "emotions"}
  /\ op = "build_queries" => DOMAIN queries = 1..Len(queries)

\* a text of whitespace only: an Analysis with no keyword and no entity, and
\* build_queries on it
C10_Witness ==
  /\ text \in DegenerateTexts
  /\ \A i \in 1..Len(text) : text[i] \in SpaceChars
  /\ op = "build_queries"
  /\ analysis.keywords = <<>>
  /\ analysis.entities = <<>>
  /\ queries = <<>>
  /\ ~ raised

\* the text has a token that is not a stopword
HasContentToken(t) ==
  \E i \in 1..Len(Words(t)) : Words(t)[i] \notin STOPWORDS

\* C11 (as stated): for every text with at least one non-stopword token,
\* analyze_text returns a non-empty keywords list and build_queries with the
\* default limit 12 on that Analysis returns a non-empty list.
C11_NonEmpty ==
  (text # NoText /\ HasContentToken(text)) =>
    /\ op = "analyze_text" => (analysis # NoAnalysis /\ analysis.keywords # <<>>)
    /\ (op = "build_queries" /\ limit = DefaultLimit) => queries # <<>>

\* one of the terms build_queries looks at passes the filter of add()
HasShortTerm(a, lim) ==
  \/ \E i \in 1..Len(a.keywords) :
       i <= TopTerms /\ i <= lim /\ WordCount(a.keywords[i][1]) <= 6
  \/ \E j \in 1..Len(a.entities) :
       j <= TopEntities /\ WordCount(a.entities[j]) <= 6

\* C11 (amended): for every text with at least one non-stopword token,
\* analyze_text returns a non-empty keywords list; build_queries with the
\* default limit 12 on that Analysis returns a non-empty list whenever one of
\* its first 12 keyword phrases or first 4 entities has at most 6 words.
C11_NonEmptyShort ==
  (text # NoText /\ HasContentToken(text)) =>
    /\ op = "analyze_text" => (analysis # NoAnalysis /\ analysis.keywords # <<>>)
    /\ (op = "build_queries" /\ limit = DefaultLimit
          /\ HasShortTerm(analysis, DefaultLimit)) => queries # <<>>

\* a text whose longest keyword phrase is too long for a query, and whose
\* default-limit queries are built from the shorter terms
C11_Witness ==
  /\ text # NoText
  /\ HasContentToken(text)
  /\ op = "build_queries"
  /\ limit = DefaultLimit
  /\ \E i \in 1..Len(analysis.keywords) : WordCount(analysis.keywords[i][1]) > 6
  /\ HasShortTerm(analysis, DefaultLimit)
  /\ queries # <<>>

\* a field of the reply has the shape the prompt asks for: a list of strings
\* (or the key is left out)
ListOfStrings(field) ==
  \/ field.t = "absent"
  \/ field.t = "list" /\ \A i \in 1..Len(field.v) : field.v[i].t = "str"

\* the parsed reply is an object whose four fields are lists of strings
RightShape(data) ==
  /\ data.t = "object"
  /\ ListOfStrings(data.keywords)
  /\ ListOfStrings(data.entities)
  /\ ListOfStrings(data.actions)
  /\ ListOfStrings(data.emotions)

\* the AI analysis fails or yields fewer than 5 cleaned keywords
AiFails(g) ==
  \/ ~ g.key
  \/ g.reply.kind \in {"api_error", "not_json"}
  \/ ~ RightShape(g.reply.data)
  \/ Len(clean_keywords(Items(Get(g.reply.data.keywords)))) < MinKeywords

\* C12: whenever the AI analyzer is attempted and fails in any way (key
\* missing, API call raises, response not valid JSON, JSON of the wrong
\* shape) or yields fewer than 5 cleaned keywords, the Analysis the caller
\* ends up with (analyze_text_smart, or analyze_text_with_gemini inside the
\* caller's try/except) equals analyze_text(text) and nothing is raised.
C12_Fallback ==
  (op \in {"analyze_text_smart", "app_analyze"} /\ gemini.use_ai /\ AiFails(gemini)) =>
    (~ raised /\ analysis = analyze_text(text))

\* C15: analyze_text_with_gemini raises in each of the three failure cases:
\* credentials missing, reply that is not parseable JSON, failure of the
\* generate call; in none of them does it return an Analysis.
C15_FailureRaises ==
  (op = "analyze_text_with_gemini"
     /\ (~ gemini.key \/ gemini.reply.kind \in {"api_error", "not_json"})) =>
    (raised /\ analysis = NoAnalysis)

\* the position of a provider in the fixed order
ProviderIndex(name) == CHOOSE i \in 1..Len(Providers) : Providers[i] = name

\* what the provider's own search does in the last search_all call
OwnSearch(name) ==
  ProviderSearch(name, search.keys[name], search.call.media_type,
                 search.call.outcome[name])

\* C13: search_all never raises because of a provider: for every subset of
\* enabled providers and every choice of which providers' search raises,
\* search_all returns normally, still calls every later enabled provider,
\* and its result holds the records of every non-failing enabled provider
\* in the order Pexels, Pixabay, Unsplash; a disabled provider is never
\* called.
C13_NeverAborts ==
  op = "search_all" =>
    LET c == search.call
        on(n) == EnabledGet(search.enabled, n)
    IN  /\ ~ raised
        /\ c.called = SelectSeq(Providers, on)
        /\ \A n \in ProviderNames :
             (on(n) /\ ~ OwnSearch(n).raised) =>
               SelectSeq(c.results, LAMBDA r : r.provider = n) = OwnSearch(n).out
        /\ \A i, j \in 1..Len(c.results) :
             i < j => ProviderIndex(c.results[i].provider)
                        <= ProviderIndex(c.results[j].provider)
        /\ \A i \in 1..Len(c.called) : on(c.called[i])

\* the search of Pexels raises, Pixabay is still called and its record is
\* in the result, Unsplash is disabled and not called
C13_Witness ==
  /\ op = "search_all"
  /\ ~ raised
  /\ OwnSearch("Pexels").raised
  /\ search.call.called = <<"Pexels", "Pixabay">>
  /\ ~ EnabledGet(search.enabled, "Unsplash")
  /\ Len(OwnSearch("Pixabay").out) > 0
  /\ \E i \in 1..Len(search.call.results) :
       search.call.results[i] = OwnSearch("Pixabay").out[1]

\* C14: whenever the search request of an enabled provider fails (HTTP error
\* status, timeout or network error inside the provider's search), the list
\* search_all returns holds a placeholder record of that provider whose
\* extra carries the error marker.
C14_PlaceholderOnFailure ==
  op = "search_all" =>
    \A n \in ProviderNames :
      ( /\ EnabledGet(search.enabled, n)
        /\ search.keys[n]
        /\ ~ (n = "Unsplash" /\ search.call.media_type = "video")
        /\ search.call.outcome[n] = RequestFails ) =>
      \E i \in 1..Len(search.call.results) :
        /\ search.call.results[i].provider = n
        /\ IsError(search.call.results[i])

\* a capitalized-word match is accepted
Accepted(e) == Len(e) >= 3 /\ upper(e) \notin ban

\* the accepted matches of a text, in the order the pattern finds them
AcceptedMatches(t) == SelectSeq(ENTITY_PATTERN(t), Accepted)

\* the number of distinct matches before position i
DistinctBefore(acc, i) == Cardinality({acc[j] : j \in 1..(i - 1)})

\* position i is the first occurrence of its match
FirstOccurrence(acc, i) == \A j \in 1..(i - 1) : acc[j] # acc[i]

\* C16: extract_entities returns the first max_n distinct accepted matches in
\* the order of their first occurrence, a match being accepted exactly when
\* it has at least 3 characters and its uppercased form is none of INT, EXT,
\* DAY, NIGHT; a proper noun occurring 3 times appears once, at the position
\* of its first occurrence.
C16_FirstDistinctAccepted ==
  op = "extract_entities" =>
    LET acc == AcceptedMatches(text)
        distinct == Cardinality({acc[i] : i \in 1..Len(acc)})
    IN  /\ Len(entities) = IF entity_max_n < distinct THEN entity_max_n ELSE distinct
        /\ \A k \in 1..Len(entities) :
             \E i \in 1..Len(acc) :
               /\ acc[i] = entities[k]
               /\ FirstOccurrence(acc, i)
               /\ DistinctBefore(acc, i) = k - 1

\* a text with a name three times, a short name and banned names among its
\* matches, and more distinct accepted matches than max_n
C16_Witness ==
  /\ op = "extract_entities"
  /\ text = EntityText
  /\ entity_max_n = 2
  /\ Cardinality({i \in 1..Len(ENTITY_PATTERN(text)) :
                    ENTITY_PATTERN(text)[i] = <<"B","o","b">>}) = 3
  /\ \E i \in 1..Len(ENTITY_PATTERN(text)) : ~ Accepted(ENTITY_PATTERN(text)[i])
  /\ entities = << <<"B","o","b">>, <<"N","e","w"," ","Y","o","r","k">> >>

\* C17: for the text "A barista wipes the counter. Steam rises. Hopeful
\* mood." the actions list returned by analyze_text contains "wipes".
C17_WipesInActions ==
  (op = "analyze_text" /\ text = ScenarioText) =>
    Contains(analysis.actions, <<"w","i","p","e","s">>)

\* C18 (as stated): for that text the emotions list returned by analyze_text
\* contains "happy" and does not contain "hope".
C18_HappyNotHope ==
  (op = "analyze_text" /\ text = ScenarioText) =>
    (Contains(analysis.emotions, "happy") /\ ~ Contains(analysis.emotions, "hope"))

\* C18 (amended): for that text the emotions list returned by analyze_text
\* contains "happy" and also contains "hope".
C18_HappyAndHope ==
  (op = "analyze_text" /\ text = ScenarioText) =>
    (Contains(analysis.emotions, "happy") /\ Contains(analysis.emotions, "hope"))

\* the scenario text analysed: "hopeful" triggers happy, and its substring
\* "hope" triggers hope
C18_Witness ==
  /\ op = "analyze_text"
  /\ text = ScenarioText
  /\ IsSubstring(<<"h","o","p","e","f","u","l">>, lower(text))
  /\ analysis.emotions = <<"happy", "hope">>

\* the runs of separator characters around the tokens of a text: element
\* i + 1 is the run between token i and token i + 1
SeparatorRuns(t) ==
  ReSplit(t, {t[i] : i \in 1..Len(t)} \ PUNCT_CLASS, 1, <<>>, <<>>)

\* tokens i and i + 1 of the text are separated by a punctuation character
PunctBetween(t, i) ==
  \E k \in 1..Len(SeparatorRuns(t)[i + 1]) : SeparatorRuns(t)[i + 1][k] \notin SpaceChars

\* words a, b stand next to each other in the keyword phrase kw
AdjacentIn(kw, a, b) ==
  \E j \in 1..(Len(split(kw)) - 1) : split(kw)[j] = a /\ split(kw)[j + 1] = b

\* C19 (as stated): the phrase splitter breaks candidate phrases on
\* punctuation as well as on stopwords: two non-stopword tokens separated in
\* the text by a punctuation character never belong to the same candidate
\* phrase, and hence never to the same keyword.
C19_BreaksOnPunctuation ==
  op = "analyze_text" =>
    LET W == Words(text)
    IN  \A i \in 1..(Len(W) - 1) :
          (W[i] \notin STOPWORDS /\ W[i + 1] \notin STOPWORDS /\ PunctBetween(text, i)) =>
            \A k \in 1..Len(analysis.keywords) :
              ~ AdjacentIn(analysis.keywords[k][1], W[i], W[i + 1])

\* tokens i..j of W are a maximal run of non-stopword tokens
MaximalRun(W, i, j) ==
  /\ i <= j
  /\ \A k \in i..j : W[k] \notin STOPWORDS
  /\ i = 1 \/ W[i - 1] \in STOPWORDS
  /\ j = Len(W) \/ W[j + 1] \in STOPWORDS

\* C19 (amended): the phrase splitter breaks candidate phrases on stopwords
\* only; punctuation separates tokens without ending a phrase.  The
\* candidate phrases, and hence the keywords, are exactly the maximal runs of
\* consecutive non-stopword tokens, whatever separator stands between them.
C19_BreaksOnStopwordsOnly ==
  (op = "analyze_text" /\ Len(analysis.keywords) < DefaultTopK) =>
    LET W == Words(text)
        ks == PhrasesOf(analysis.keywords)
    IN  /\ \A k \in 1..Len(ks) :
             \E i, j \in 1..Len(W) :
               MaximalRun(W, i, j) /\ ks[k] = join(SubSeq(W, i, j))
        /\ \A i, j \in 1..Len(W) :
             MaximalRun(W, i, j) => Contains(ks, join(SubSeq(W, i, j)))

\* the scenario text: "counter" and "steam" are separated by a period and
\* stand in one keyword
C19_Witness ==
  /\ op = "analyze_text"
  /\ \E i \in 1..(Len(Words(text)) - 1) :
       /\ Words(text)[i] = <<"c","o","u","n","t","e","r">>
       /\ Words(text)[i + 1] = <<"s","t","e","a","m">>
       /\ PunctBetween(text, i)
       /\ \E k \in 1..Len(analysis.keywords) :
            AdjacentIn(analysis.keywords[k][1], Words(text)[i], Words(text)[i + 1])

\* C20 (as stated): single-word phrases score lowest: in the keyword scores
\* computed by _score_phrases no single-word phrase has a strictly higher
\* score than a phrase of two or more words.
C20_SingleLowest ==
  op = "analyze_text" =>
    \A i, j \in 1..Len(analysis.keywords) :
      (WordCount(analysis.keywords[i][1]) = 1 /\ WordCount(analysis.keywords[j][1]) >= 2) =>
        ~ ScoreLess(analysis.keywords[j][2], analysis.keywords[i][2])

\* the word of a single-word keyword stands in no keyword of several words
DegreeZero(kws, i) ==
  /\ WordCount(kws[i][1]) = 1
  /\ \A j \in 1..Len(kws) :
       WordCount(kws[j][1]) >= 2 => ~ Contains(split(kws[j][1]), kws[i][1])

\* C20 (amended): single-word phrases of degree 0 score lowest: a single-word
\* phrase whose word occurs in no phrase of two or more words has score
\* exactly 1, and every phrase of two or more words scores strictly higher.
C20_DegreeZeroLowest ==
  (op = "analyze_text" /\ Len(analysis.keywords) < DefaultTopK) =>
    \A i \in 1..Len(analysis.keywords) :
      DegreeZero(analysis.keywords, i) =>
        /\ analysis.keywords[i][2].num = analysis.keywords[i][2].den
        /\ \A j \in 1..Len(analysis.keywords) :
             WordCount(analysis.keywords[j][1]) >= 2 =>
               ScoreLess(analysis.keywords[i][2], analysis.keywords[j][2])

\* a text with a single-word phrase of degree 0 and a longer phrase
C20_Witness ==
  /\ op = "analyze_text"
  /\ \E i, j \in 1..Len(analysis.keywords) :
       /\ DegreeZero(analysis.keywords, i)
       /\ WordCount(analysis.keywords[j][1]) >= 2
       /\ ScoreLess(analysis.keywords[i][2], analysis.keywords[j][2])

\* a token of the fixed verb vocabulary, or one ending in "ing"
VerbOrIng(w) ==
  \/ w \in COMMON_VERBS_0
  \/ Len(w) >= 3 /\ SubSeq(w, Len(w) - 2, Len(w)) = <<"i","n","g">>

\* how often the token w occurs in the token list W, and where first
CountIn(W, w) == Cardinality({i \in 1..Len(W) : W[i] = w})

FirstIn(W, w) == CHOOSE i \in 1..Len(W) : W[i] = w /\ \A j \in 1..(i - 1) : W[j] # w

\* a ranks before b: more occurrences, or as many and seen first
ActionBefore(W, a, b) ==
  \/ CountIn(W, a) > CountIn(W, b)
  \/ CountIn(W, a) = CountIn(W, b) /\ FirstIn(W, a) < FirstIn(W, b)

\* C21: for every text and max_n, extract_actions returns the distinct
\* lowercased tokens that are in the fixed verb vocabulary or end in "ing"
\* (and no other token), ordered by non-increasing occurrence count, equal
\* counts in order of first occurrence in the text, truncated to the first
\* max_n.
C21_ActionsRanked ==
  op = "extract_actions" =>
    LET W == Words(text)
        A == {W[i] : i \in {k \in 1..Len(W) : VerbOrIng(W[k])}}
    IN  /\ Len(actions) = IF action_max_n < Cardinality(A) THEN action_max_n
                          ELSE Cardinality(A)
        /\ NoDuplicates(actions)
        /\ \A i \in 1..Len(actions) : actions[i] \in A
        /\ \A i, j \in 1..Len(actions) : i < j => ActionBefore(W, actions[i], actions[j])
        /\ \A i \in 1..Len(actions) : \A b \in A :
             ~ Contains(actions, b) => ActionBefore(W, actions[i], b)

\* "Sing, RUN run. Walking walking; sun Run" with max_n = 2: run (3 times, in
\* three spellings) before walking (twice); sing, seen first, is cut off
C21_Witness ==
  /\ op = "extract_actions"
  /\ text = ActionText
  /\ action_max_n = 2
  /\ actions = << <<"r","u","n">>, <<"w","a","l","k","i","n","g">> >>
  /\ FirstIn(Words(text), <<"s","i","n","g">>) = 1

\* two actions with equal counts, returned in the order of first occurrence
\* although the second one is not the smaller word
C21_TieWitness ==
  /\ op = "extract_actions"
  /\ actions = << <<"i","n","g">>, <<"c","u","t">> >>

\* the items of a list that add() accepts when they are offered in order to
\* a list already holding before: 1 to 6 words, not in before, not offered
\* earlier
AcceptedOf(before, offered) ==
  LET ok(i) == /\ offered[i] # <<>>
               /\ WordCount(offered[i]) >= 1
               /\ WordCount(offered[i]) <= 6
               /\ ~ Contains(before, offered[i])
               /\ \A j \in 1..(i - 1) : offered[j] # offered[i]
      idx == {i \in 1..Len(offered) : ok(i)}
      nth(k) == CHOOSE i \in idx : Cardinality({j \in idx : j < i}) = k - 1
  IN  [k \in 1..Cardinality(idx) |-> offered[nth(k)]]

\* the entries accepted from the keyword step and the entity step
BaseEntries(a, lim) ==
  AcceptedOf(<<>>, Take(PhrasesOf(Take(a.keywords, 15)), lim) \o Take(a.entities, 4))

\* the keywords of at most 2 words among the 6 leading keywords
ShortLeading(a) ==
  LET lead == PhrasesOf(Take(a.keywords, 6))
      idx == {i \in 1..Len(lead) : WordCount(lead[i]) <= 2}
      nth(k) == CHOOSE i \in idx : Cardinality({j \in idx : j < i}) = k - 1
  IN  [k \in 1..Cardinality(idx) |-> lead[nth(k)]]

\* "<action> <keyword>" for the first 3 actions and the first 3 short leading
\* keywords, action-major
Pairs(a) ==
  LET as == Take(a.actions, 3)
      ks == Take(ShortLeading(a), 3)
  IN  [n \in 1..(Len(as) * Len(ks)) |->
         as[((n - 1) \div Len(ks)) + 1] \o <<" ">> \o ks[((n - 1) % Len(ks)) + 1]]

\* C22: action+keyword combinations are a fallback only: the result of
\* build_queries holds a combination entry only if fewer than limit entries
\* were accepted from the keyword step and the entity step together; when
\* present, combinations come after all keyword and entity entries and are
\* formed only from the first 3 actions and the first 3 keywords of at most 2
\* words among the 6 leading keywords, in action-major order, until the cap
\* is reached.
C22_CombosFallback ==
  (op = "build_queries" /\ analysis # NoAnalysis) =>
    LET base == BaseEntries(analysis, limit)
        combos == AcceptedOf(base, Pairs(analysis))
    IN  /\ Len(base) >= limit => queries = Take(base, limit)
        /\ Len(base) < limit => queries = Take(base \o combos, limit)

\* one long keyword accepted, four actions, one short keyword among the six
\* leading ones and more behind them: three combinations, below the cap
C22_Witness ==
  /\ op = "build_queries"
  /\ analysis # NoAnalysis
  /\ Len(analysis.actions) > 3
  /\ Len(analysis.keywords) > 6
  /\ Len(BaseEntries(analysis, limit)) = 1
  /\ Len(queries) = 4
  /\ Len(queries) < limit
  /\ queries[4] = analysis.actions[3] \o <<" ">> \o ShortLeading(analysis)[1]

=============================================================================
